---- MODULE Spec2Model ----
(***************************************************************************)
(* Model of the Twitter Jobs Dashboard (src/app.py): the sample generator, *)
(* the live fetch with its fallbacks, the region filter and the location   *)
(* aggregation that feeds the optional chart.                               *)
(*                                                                         *)
(* Python strings are TLA+ strings; Len, SubSeq and \o act on their        *)
(* characters.  Python's None and a missing attribute are two reserved     *)
(* values that no text of the model contains.                              *)
(***************************************************************************)
EXTENDS Integers, Sequences, FiniteSets, TLC

(***************************************************************************)
(* Bounds of the model.                                                    *)
(***************************************************************************)
\* longest result stream of the small live source
MaxItems == 4
\* largest limit of a direct call of scrape_tweets / generate_sample_data
MaxLimit == 2
\* slider positions above min_value that a script run may select
MaxSliderSteps == 7

(***************************************************************************)
(* Program constants.                                                      *)
(***************************************************************************)
\* st.slider("Max tweets to fetch", min_value=10, max_value=500, step=10)
SliderMin == 10
SliderMax == 500
SliderStep == 10
\* f" #{1000+i}"
SuffixBase == 1000
\* 1700000000000000000 + i: the leading ten digits, and the nine that follow
StatusIdHigh == 1700000000
StatusIdLowDigits == 9
\* .head(15)
TopN == 15

(***************************************************************************)
(* One run.  entry = "script" is a run of the page script (sidebar values, *)
(* fetch, filter, charts, feed); entry = "call" is a direct call of        *)
(* scrape_tweets (live) or generate_sample_data (not live) with any        *)
(* limit >= 0.                                                             *)
(***************************************************************************)
VARIABLES
  entry,        \* "script" or "call"
  live,         \* the toggle "Use live scraping (snscrape)"
  max_tweets,   \* the slider value; the limit / n of a direct call
  pc,           \* "fetch", "iter", then "returned" or "crashed" (the call is over),
                \* or "filter", "charts", "done" (the script goes on)
  feed,         \* which result stream the source serves ("" before the search)
  pulled,       \* items requested from get_items() so far
  yielded,      \* the items get_items() handed out, in order
  rows,         \* scrape_tweets' local list
  how,          \* how the fetch ended: "off", "noimport", "except", "empty", "rows"
  df,           \* the fetched table
  raised,       \* the exception that left scrape_tweets ("" for none)
  msgs,         \* st.info / st.warning notices, in order
  region,       \* the region filter text
  df_filtered,  \* apply_region_filter(df, region)
  loc_counts    \* the chart's (location, size) table

vars == <<entry, live, max_tweets, pc, feed, pulled, yielded, rows, how, df,
          raised, msgs, region, df_filtered, loc_counts>>

(***************************************************************************)
(* Python values and string methods.                                       *)
(***************************************************************************)
None == "<None>"
Missing == "<missing>"

\* truthiness of a str-or-None value, as `x or y` tests it
Falsy(v) == v = None \/ v = ""

\* x or y
Or(x, y) == IF Falsy(x) THEN y ELSE x

\* getattr(obj, name, default) on a record whose absent attributes are Missing
Getattr(obj, name, default) == IF obj[name] = Missing THEN default ELSE obj[name]

Char(s, k) == SubSeq(s, k, k)

Whitespace == {" ", "\t"}

UpperCase ==
  <<"A","B","C","D","E","F","G","H","I","J","K","L","M",
    "N","O","P","Q","R","S","T","U","V","W","X","Y","Z">>

LowerCase ==
  <<"a","b","c","d","e","f","g","h","i","j","k","l","m",
    "n","o","p","q","r","s","t","u","v","w","x","y","z">>

LowerChar(c) ==
  IF \E k \in 1..Len(UpperCase) : UpperCase[k] = c
  THEN LowerCase[CHOOSE k \in 1..Len(UpperCase) : UpperCase[k] = c]
  ELSE c

RECURSIVE lower(_)
\* str.lower()
lower(s) == IF s = "" THEN "" ELSE LowerChar(Char(s, 1)) \o lower(Tail(s))

\* str.strip()
strip(s) ==
  LET keep == {k \in 1..Len(s) : Char(s, k) \notin Whitespace}
  IN IF keep = {} THEN ""
     ELSE SubSeq(s, CHOOSE a \in keep : \A b \in keep : a <= b,
                    CHOOSE a \in keep : \A b \in keep : a >= b)

RECURSIVE split(_, _)
\* str.split(sep) for a one-character separator
split(s, sep) ==
  LET at == {k \in 1..Len(s) : Char(s, k) = sep}
  IN IF at = {} THEN <<s>>
     ELSE LET k == CHOOSE a \in at : \A b \in at : a <= b
          IN <<SubSeq(s, 1, k - 1)>> \o split(SubSeq(s, k + 1, Len(s)), sep)

\* sub in s
In(sub, s) ==
  \E k \in 1..(Len(s) - Len(sub) + 1) : SubSeq(s, k, k + Len(sub) - 1) = sub

RECURSIVE Zeros(_)
Zeros(n) == IF n <= 0 THEN "" ELSE "0" \o Zeros(n - 1)

\* str(1700000000000000000 + i) for 0 <= i < 10^9: the sum is wider than
\* TLC's integers, so its decimal digits are produced in two parts
StatusId(i) ==
  LET low == ToString(i)
  IN ToString(StatusIdHigh) \o Zeros(StatusIdLowDigits - Len(low)) \o low

(***************************************************************************)
(* generate_sample_data                                                    *)
(***************************************************************************)
\* the catalog: (display name, handle, text, location)
names ==
  << <<"Aditi Sharma", "aditidesigns", "Hiring UI/UX designer for a fintech MVP. DM your portfolio!", "Bengaluru, India">>,
     <<"Ravi Patel", "brandkraft_ravi", "Looking for a freelance brand identity designer for a quick turnaround", "Ahmedabad, IN">>,
     <<"UX Careers", "ux_careers_daily", "We are hiring UI/UX Designer (Remote, India). Figma, prototyping, user testing.", "Remote">>,
     <<"TechNest", "technest_jobs", "Product team needs a UI Designer. Mobile-first. 3-month contract.", "Pune">>,
     <<"CreativeHub", "creativehub", "Brand identity designer needed for D2C skincare brand.", "Mumbai">>,
     <<"Sarah Lee", "sarahdesigns", "Hiring UI/UX (Mid-level). SaaS. Apply with case studies.", "San Francisco, CA">>,
     <<"Ankit Gupta", "ankit_hires", "UI/UX freelancer for a marketplace redesign. Weekly sprints.", "Gurugram">>,
     <<"StartUpWave", "startup_wave", "Brand identity + UI kit for a stealth AI startup. Paid, remote.", "Remote">> >>

\* SampleRow with the synthetic id not advanced by i
SampleRow_sameId(i) ==
  LET tpl == names[(i % Len(names)) + 1]
  IN [display_name |-> tpl[1],
      handle       |-> "@" \o tpl[2],
      text         |-> tpl[3] \o " #" \o ToString(SuffixBase + i),
      url          |-> "https://twitter.com/" \o tpl[2] \o "/status/" \o StatusId(0),
      location     |-> tpl[4]]

\* the row appended for index i (0-based)
SampleRow(i) ==
  LET tpl == names[(i % Len(names)) + 1]
  IN [display_name |-> tpl[1],
      handle       |-> "@" \o tpl[2],
      text         |-> tpl[3] \o " #" \o ToString(SuffixBase + i),
      url          |-> "https://twitter.com/" \o tpl[2] \o "/status/" \o StatusId(i),
      location     |-> tpl[4]]

generate_sample_data(n) == [k \in 1..n |-> SampleRow(k - 1)]

(***************************************************************************)
(* The external source: what sntwitter.TwitterSearchScraper(query)         *)
(* .get_items() may hand out.  A tweet is its attributes; hasUser = FALSE   *)
(* is an item on which `tweet.user` raises AttributeError, and a user that *)
(* is None has every user attribute Missing.                               *)
(***************************************************************************)
Tweets ==
  { [hasUser |-> TRUE, username |-> "ux_jobs", displayname |-> "UX Jobs",
     location |-> "Mumbai", content |-> "Hiring a UI designer",
     rawContent |-> Missing, url |-> "https://twitter.com/ux_jobs/status/1"],
    [hasUser |-> TRUE, username |-> Missing, displayname |-> Missing,
     location |-> Missing, content |-> None,
     rawContent |-> "Brand designer wanted", url |-> Missing],
    [hasUser |-> TRUE, username |-> "@pune_hr", displayname |-> "",
     location |-> "Pune", content |-> "",
     rawContent |-> None, url |-> None],
    [hasUser |-> FALSE, username |-> Missing, displayname |-> Missing,
     location |-> Missing, content |-> "Remote UX role",
     rawContent |-> Missing, url |-> Missing] }

\* A long result stream with TopN + 1 locations: location j is met in
\* (j + 1) \div 2 consecutive items, so counts tie in pairs.
NumWide == TopN + 1

WideMult(j) == (j + 1) \div 2

RECURSIVE WideUpTo(_)
WideUpTo(j) == IF j = 0 THEN 0 ELSE WideUpTo(j - 1) + WideMult(j)

WideLen == WideUpTo(NumWide)

WideTweet(k) ==
  LET j == CHOOSE g \in 1..NumWide : WideUpTo(g - 1) < k /\ k <= WideUpTo(g)
  IN [hasUser |-> TRUE, username |-> "region_jobs", displayname |-> "Region Jobs",
      location |-> "Region " \o UpperCase[j], content |-> "Designer opening",
      rawContent |-> Missing, url |-> "https://twitter.com/region_jobs/status/" \o ToString(k)]

Feeds == {"small", "wide"}

\* the items the source can hand out as its (n + 1)-th
NextItems(f, n) ==
  IF f = "small"
  THEN IF n < MaxItems THEN Tweets ELSE {}
  ELSE IF n < WideLen THEN {WideTweet(n + 1)} ELSE {}

\* whether the source can be exhausted after n items: the small source ends
\* anywhere up to MaxItems items, the long stream has exactly WideLen
CanEnd(f, n) == f = "small" \/ n = WideLen

\* type(e).__name__ of what iterating the source may raise
ExcNames == {"ScraperException"}

(***************************************************************************)
(* scrape_tweets                                                           *)
(***************************************************************************)
info(text) == <<"info", text>>
warning(text) == <<"warning", text>>

\* one loop body: the row built from a tweet that has a user
Normalize(tweet) ==
  LET handle       == Or(Getattr(tweet, "username", None), "")
      display_name == Or(Getattr(tweet, "displayname", None), handle)
      location     == Or(Getattr(tweet, "location", None), "")
      text         == Or(Getattr(tweet, "content", None), Getattr(tweet, "rawContent", ""))
      url          == Or(Getattr(tweet, "url", None), "https://twitter.com/" \o handle)
  IN [display_name |-> display_name,
      handle       |-> IF Falsy(handle) THEN "" ELSE "@" \o handle,
      text         |-> text,
      url          |-> url,
      location     |-> Or(location, "")]

\* `if i >= limit: break`, negated: the body runs for the item of index i
LoopContinues(i, limit) == i < limit

\* OnImportError letting the import error out instead of falling back
OnImportError_raise(limit) ==
  [df |-> <<>>, msgs |-> <<>>, raised |-> "ModuleNotFoundError"]

\* sntwitter is None
OnImportError(limit) ==
  [df |-> generate_sample_data(limit),
   msgs |-> <<info("snscrape is not installed. Showing sample data. Install dependencies to enable live scraping.")>>,
   raised |-> ""]

\* OnException keeping the rows collected before the failure
OnException_keepRows(e, limit) ==
  [df |-> IF rows = <<>> THEN generate_sample_data(limit) ELSE rows,
   msgs |-> <<warning("Live scraping failed (" \o e \o "). Showing sample data instead.")>>,
   raised |-> ""]

\* except Exception as e
OnException(e, limit) ==
  [df |-> generate_sample_data(limit),
   msgs |-> <<warning("Live scraping failed (" \o e \o "). Showing sample data instead.")>>,
   raised |-> ""]

\* OnComplete topping a short live result up with sample rows
OnComplete_pad(collected, limit) ==
  [df |-> collected \o [k \in 1..(limit - Len(collected)) |-> SampleRow(Len(collected) + k - 1)],
   msgs |-> IF collected = <<>>
            THEN <<info("No live results returned. Showing sample data.")>>
            ELSE <<>>,
   raised |-> ""]

\* after the loop: df = pd.DataFrame(rows); if df.empty ...
OnComplete(collected, limit) ==
  IF collected = <<>>
  THEN [df |-> generate_sample_data(limit),
        msgs |-> <<info("No live results returned. Showing sample data.")>>,
        raised |-> ""]
  ELSE [df |-> collected, msgs |-> <<>>, raised |-> ""]

\* the script's else branch: df = generate_sample_data(max_tweets)
LiveOff(limit) == [df |-> generate_sample_data(limit), msgs |-> <<>>, raised |-> ""]

(***************************************************************************)
(* apply_region_filter                                                     *)
(***************************************************************************)
\* [r.strip().lower() for r in region_input.split(",") if r.strip()]
regions(region_input) ==
  LET parts == SelectSeq(split(region_input, ","), LAMBDA r : strip(r) # "")
  IN [k \in 1..Len(parts) |-> lower(strip(parts[k]))]

\* matches without lower-casing the location
matches_caseSensitive(loc, regs) ==
  \E k \in 1..Len(regs) : In(regs[k], Or(loc, ""))

matches(loc, regs) ==
  LET loc_l == lower(Or(loc, ""))
  IN \E k \in 1..Len(regs) : In(regs[k], loc_l)

\* apply_region_filter without the `if not regions` guard
apply_region_filter_noguard(table, region_input) ==
  IF strip(region_input) = "" THEN table
  ELSE SelectSeq(table, LAMBDA row : matches(row.location, regions(region_input)))

apply_region_filter(table, region_input) ==
  IF strip(region_input) = "" THEN table
  ELSE LET regs == regions(region_input)
       IN IF regs = <<>> THEN table
          ELSE SelectSeq(table, LAMBDA row : matches(row.location, regs))

(***************************************************************************)
(* loc_counts: jobs per location (top 15)                                  *)
(***************************************************************************)
\* LocationLabel without the replace("", "Unknown")
LocationLabel_blank(loc) == IF loc = None THEN "" ELSE loc

\* .fillna("").replace("", "Unknown") on one location
LocationLabel(loc) == IF loc = None \/ loc = "" THEN "Unknown" ELSE loc

\* .groupby("location", as_index=False).size(): one (location, size) per label.
\* pandas hands the groups out ordered by label; the sort that follows does
\* not keep that order among equal sizes, so the groups are kept as a set.
groupby_size(table) ==
  LET label(k) == LocationLabel(table[k].location)
  IN { [location |-> label(k),
        size |-> Cardinality({m \in 1..Len(table) : label(m) = label(k)})]
       : k \in 1..Len(table) }

RECURSIVE sort_values_ascending(_)
\* sort_values with ascending left at its default
sort_values_ascending(groups) ==
  IF groups = {} THEN {<<>>}
  ELSE UNION { { <<g>> \o s : s \in sort_values_ascending(groups \ {g}) }
               : g \in {a \in groups : \A b \in groups : a.size <= b.size} }

RECURSIVE sort_values(_)
\* .sort_values("size", ascending=False) with the default, non-stable kind:
\* every arrangement by non-increasing size is an outcome
sort_values(groups) ==
  IF groups = {} THEN {<<>>}
  ELSE UNION { { <<g>> \o s : s \in sort_values(groups \ {g}) }
               : g \in {a \in groups : \A b \in groups : b.size <= a.size} }

head(s, n) == SubSeq(s, 1, IF Len(s) < n THEN Len(s) ELSE n)

\* the values loc_counts can take for a non-empty filtered table
loc_counts_of(table) == { head(s, TopN) : s \in sort_values(groupby_size(table)) }

SliderValues ==
  {v \in {SliderMin + SliderStep * k : k \in 0..MaxSliderSteps} : v <= SliderMax}

\* what the sidebar's region box may hold
Regions == {"", "  ", " , ,", "india, remote", " PUNE ,", "Region"}

Init ==
  /\ entry \in {"script", "call"}
  /\ live \in BOOLEAN
  /\ max_tweets \in IF entry = "script" THEN SliderValues ELSE 0..MaxLimit
  /\ pc = "fetch"
  /\ feed = ""
  /\ pulled = 0
  /\ yielded = <<>>
  /\ rows = <<>>
  /\ how = ""
  /\ df = <<>>
  /\ raised = ""
  /\ msgs = <<>>
  /\ region = ""
  /\ df_filtered = <<>>
  /\ loc_counts = <<>>

\* the fetch is over with result r
Fetched(r, h) ==
  /\ df' = r.df
  /\ msgs' = msgs \o r.msgs
  /\ raised' = r.raised
  /\ how' = h
  /\ pc' = IF r.raised # "" THEN "crashed"
           ELSE IF entry = "script" THEN "filter" ELSE "returned"

\* else: df = generate_sample_data(max_tweets)
FetchSample ==
  /\ pc = "fetch" /\ ~live
  /\ Fetched(LiveOff(max_tweets), "off")
  /\ UNCHANGED <<entry, live, max_tweets, feed, pulled, yielded, rows, region,
                 df_filtered, loc_counts>>

\* scrape_tweets: _get_snscrape() returns None
ImportFails ==
  /\ pc = "fetch" /\ live
  /\ Fetched(OnImportError(max_tweets), "noimport")
  /\ UNCHANGED <<entry, live, max_tweets, feed, pulled, yielded, rows, region,
                 df_filtered, loc_counts>>

\* scrape_tweets: the module loads and the search is set up
ImportOk ==
  /\ pc = "fetch" /\ live
  /\ \E f \in Feeds : feed' = f
  /\ pc' = "iter"
  /\ UNCHANGED <<entry, live, max_tweets, pulled, yielded, rows, how, df, raised,
                 msgs, region, df_filtered, loc_counts>>

\* the source hands out an item and the loop body appends its row
IterYield ==
  /\ pc = "iter"
  /\ \E tweet \in NextItems(feed, pulled) :
       /\ LoopContinues(pulled, max_tweets)
       /\ tweet.hasUser
       /\ pulled' = pulled + 1
       /\ yielded' = Append(yielded, tweet)
       /\ rows' = Append(rows, Normalize(tweet))
  /\ UNCHANGED <<entry, live, max_tweets, pc, feed, how, df, raised, msgs, region,
                 df_filtered, loc_counts>>

\* the source hands out an item whose body raises AttributeError
IterBodyRaises ==
  /\ pc = "iter"
  /\ \E tweet \in NextItems(feed, pulled) :
       /\ LoopContinues(pulled, max_tweets)
       /\ ~tweet.hasUser
       /\ pulled' = pulled + 1
       /\ yielded' = Append(yielded, tweet)
  /\ Fetched(OnException("AttributeError", max_tweets), "except")
  /\ UNCHANGED <<entry, live, max_tweets, feed, rows, region, df_filtered, loc_counts>>

\* the source hands out an item of index i >= limit: break, then the return
IterBreak ==
  /\ pc = "iter"
  /\ \E tweet \in NextItems(feed, pulled) :
       /\ ~LoopContinues(pulled, max_tweets)
       /\ pulled' = pulled + 1
       /\ yielded' = Append(yielded, tweet)
  /\ Fetched(OnComplete(rows, max_tweets), IF rows = <<>> THEN "empty" ELSE "rows")
  /\ UNCHANGED <<entry, live, max_tweets, feed, rows, region, df_filtered, loc_counts>>

\* the source is exhausted: the loop ends, then the return
IterStop ==
  /\ pc = "iter"
  /\ CanEnd(feed, pulled)
  /\ pulled' = pulled + 1
  /\ Fetched(OnComplete(rows, max_tweets), IF rows = <<>> THEN "empty" ELSE "rows")
  /\ UNCHANGED <<entry, live, max_tweets, feed, yielded, rows, region, df_filtered,
                 loc_counts>>

\* the search or the iterator raises
IterRaises ==
  /\ pc = "iter"
  /\ pulled' = pulled + 1
  /\ \E e \in ExcNames : Fetched(OnException(e, max_tweets), "except")
  /\ UNCHANGED <<entry, live, max_tweets, feed, yielded, rows, region, df_filtered,
                 loc_counts>>

\* df_filtered = apply_region_filter(df, region); by now scrape_tweets' frame
\* (rows) and the search iterator it consumed are gone
Filter ==
  /\ pc = "filter"
  /\ \E r \in Regions :
       /\ region' = r
       /\ df_filtered' = apply_region_filter(df, r)
  /\ pc' = "charts"
  /\ feed' = ""
  /\ pulled' = 0
  /\ yielded' = <<>>
  /\ rows' = <<>>
  /\ UNCHANGED <<entry, live, max_tweets, how, df, raised, msgs, loc_counts>>

\* the optional charts, then the feed: loc_counts for a table with rows (and
\* a notice when the chart cannot be drawn), two notices for an empty one
ChartsAndFeed ==
  /\ pc = "charts"
  /\ IF df_filtered = <<>>
     THEN /\ msgs' = msgs \o
                 << info("No data to chart yet."),
                    warning("No tweets found with the current filters. Try changing keywords or removing the region filter.") >>
          /\ UNCHANGED loc_counts
     ELSE /\ loc_counts' \in loc_counts_of(df_filtered)
          /\ \E altair \in BOOLEAN :
               msgs' = IF altair THEN msgs
                       ELSE Append(msgs, info("Altair is not installed; skipping charts."))
  /\ pc' = "done"
  /\ UNCHANGED <<entry, live, max_tweets, feed, pulled, yielded, rows, how, df,
                 raised, region, df_filtered>>

Next ==
  \/ FetchSample
  \/ ImportFails
  \/ ImportOk
  \/ IterYield
  \/ IterBodyRaises
  \/ IterBreak
  \/ IterStop
  \/ IterRaises
  \/ Filter
  \/ ChartsAndFeed

Spec == Init /\ [][Next]_vars

(***************************************************************************)
(* Properties.                                                             *)
(***************************************************************************)
\* the fetch has just ended: scrape_tweets' locals are still in view
AtReturn == pc \in {"filter", "returned", "crashed"}

\* the script has just run apply_region_filter
Filtered == pc = "charts"

Min(a, b) == IF a < b THEN a ELSE b

\* the filter text holds nothing but commas and whitespace
NoTokens(s) == \A k \in 1..Len(s) : Char(s, k) \in Whitespace \cup {","}

Locations(table) == [k \in 1..Len(table) |-> table[k].location]

Labels(table) == {LocationLabel(table[k].location) : k \in 1..Len(table)}

CountOf(table, l) ==
  Cardinality({k \in 1..Len(table) : LocationLabel(table[k].location) = l})

FirstSeen(table, l) ==
  CHOOSE k \in 1..Len(table) :
    /\ LocationLabel(table[k].location) = l
    /\ \A m \in 1..(k - 1) : LocationLabel(table[m].location) # l

\* C1: whenever the live path fails (snscrape cannot be loaded, iterating
\* raises at any point, or no item is collected), scrape_tweets returns
\* exactly generate_sample_data(limit) and no exception leaves it.
C1_FallbackIsSample ==
  (AtReturn /\ live /\ how \in {"noimport", "except", "empty"})
    => (df = generate_sample_data(max_tweets) /\ raised = "" /\ pc # "crashed")

\* C1's case: the source raised after rows had been collected
C1_Witness ==
  /\ AtReturn /\ live /\ how = "except"
  /\ Len(rows) >= 1 /\ max_tweets >= 1
  /\ df = generate_sample_data(max_tweets)

\* C2: when the source hands out m >= 1 items without raising and
\* limit >= 1, scrape_tweets returns exactly the first min(m, limit) items,
\* normalized, in source order, at most limit of them, with no sample row
\* substituted or appended.
C2_LiveRows ==
  (AtReturn /\ live /\ how \in {"rows", "empty"} /\ Len(yielded) >= 1 /\ max_tweets >= 1)
    => /\ df = [k \in 1..Min(Len(yielded), max_tweets) |-> Normalize(yielded[k])]
       /\ Len(df) <= max_tweets
       /\ how = "rows" /\ raised = ""

\* C2's case: the source ended with fewer items than the limit
C2_Witness ==
  /\ AtReturn /\ live /\ how = "rows"
  /\ Len(yielded) >= 1 /\ Len(yielded) < max_tweets
  /\ Len(df) = Len(yielded)

\* C3 as stated: with the search dependency absent, a live run gives the
\* table and the notices of a run with live mode off, and does not fail.
C3_SameAsLiveOff ==
  (AtReturn /\ live /\ how = "noimport")
    => /\ df = LiveOff(max_tweets).df
       /\ msgs = LiveOff(max_tweets).msgs
       /\ raised = ""

\* C3, amended: with the search dependency absent, a live run gives the
\* table of a run with live mode off and does not fail; it surfaces one
\* informational notice more (that snscrape is not installed).
C3_SameTableOneMoreNotice ==
  (AtReturn /\ live /\ how = "noimport")
    => /\ df = LiveOff(max_tweets).df
       /\ raised = "" /\ pc # "crashed"
       /\ Len(msgs) = Len(LiveOff(max_tweets).msgs) + 1
       /\ msgs[Len(msgs)][1] = "info"

\* C3's case: a script run, live mode on, snscrape not loadable
C3_Witness ==
  /\ pc = "filter" /\ entry = "script" /\ live /\ how = "noimport"
  /\ Len(df) = max_tweets

\* C4: a filter text with no token (empty, whitespace, commas and
\* whitespace) leaves the table unchanged.
C4_NoTokensUnchanged ==
  (Filtered /\ NoTokens(region)) => df_filtered = df

\* C4's case: commas and whitespace only, on a table with rows
C4_Witness ==
  /\ Filtered /\ region = " , ," /\ df # <<>> /\ df_filtered = df

\* C5: with at least one token, the result is exactly the rows whose
\* lower-cased location contains a lower-cased trimmed token, in their
\* original order; rows with an empty location are never kept.
C5_ExactlyMatchingRows ==
  (Filtered /\ ~NoTokens(region))
    => /\ LET tokens == regions(region)
          IN df_filtered =
               SelectSeq(df, LAMBDA row :
                 \E k \in 1..Len(tokens) : In(tokens[k], lower(row.location)))
       /\ \A k \in 1..Len(df_filtered) : df_filtered[k].location \notin {"", None}

\* C5's case: a token in upper case, a table with a matching row and a row
\* without location
C5_Witness ==
  /\ Filtered /\ region = " PUNE ,"
  /\ \E k \in 1..Len(df) : df[k].location = ""
  /\ df_filtered # <<>> /\ Len(df_filtered) < Len(df)

\* C6 as stated: groups with equal counts appear in the order in which
\* their location was first seen in the table; for locations
\* ["Mumbai","Mumbai","","Pune"] the output is
\* [("Mumbai",2),("Unknown",1),("Pune",1)].
C6_TiesFirstSeen ==
  (pc = "done" /\ df_filtered # <<>>)
    => /\ \A a, b \in 1..Len(loc_counts) :
            (a < b /\ loc_counts[a].size = loc_counts[b].size)
              => FirstSeen(df_filtered, loc_counts[a].location)
                   < FirstSeen(df_filtered, loc_counts[b].location)
       /\ Locations(df_filtered) = <<"Mumbai", "Mumbai", "", "Pune">>
            => loc_counts = << [location |-> "Mumbai", size |-> 2],
                               [location |-> "Unknown", size |-> 1],
                               [location |-> "Pune", size |-> 1] >>

\* C6, amended: the order of groups with equal counts is not fixed (it is
\* not the first-seen order); for locations ["Mumbai","Mumbai","","Pune"]
\* the output is ("Mumbai",2) followed by ("Unknown",1) and ("Pune",1) in
\* either order.
C6_TiesEitherOrder ==
  (pc = "done" /\ Locations(df_filtered) = <<"Mumbai", "Mumbai", "", "Pune">>)
    => /\ Len(loc_counts) = 3
       /\ loc_counts[1] = [location |-> "Mumbai", size |-> 2]
       /\ {loc_counts[2], loc_counts[3]}
            = {[location |-> "Unknown", size |-> 1], [location |-> "Pune", size |-> 1]}

\* C6's case: the example table, charted with "Pune" ahead of "Unknown"
C6_Witness ==
  /\ pc = "done"
  /\ Locations(df_filtered) = <<"Mumbai", "Mumbai", "", "Pune">>
  /\ loc_counts = << [location |-> "Mumbai", size |-> 2],
                     [location |-> "Pune", size |-> 1],
                     [location |-> "Unknown", size |-> 1] >>

\* C7: for a non-empty filtered table the chart table has at most 15
\* pairs with distinct locations, counts non-increasing, every count the
\* number of rows with that location (empty ones under "Unknown"), and a
\* group left out is no larger than the smallest one kept.
C7_TopCounts ==
  (pc = "done" /\ df_filtered # <<>>)
    => LET labels == Labels(df_filtered)
           count == [l \in labels |-> CountOf(df_filtered, l)]
       IN /\ Len(loc_counts) = Min(TopN, Cardinality(labels))
          /\ \A a, b \in 1..Len(loc_counts) :
               a < b => /\ loc_counts[a].location # loc_counts[b].location
                        /\ loc_counts[a].size >= loc_counts[b].size
          /\ \A a \in 1..Len(loc_counts) :
               /\ loc_counts[a].location \in labels
               /\ loc_counts[a].location # ""
               /\ loc_counts[a].size = count[loc_counts[a].location]
          /\ \A l \in labels :
               (\A a \in 1..Len(loc_counts) : loc_counts[a].location # l)
                 => \A a \in 1..Len(loc_counts) : count[l] <= loc_counts[a].size

\* C7's case: sixteen locations, one of the smallest groups left out
C7_Witness ==
  /\ pc = "done"
  /\ Cardinality(Labels(df_filtered)) = TopN + 1
  /\ Len(loc_counts) = TopN
  /\ loc_counts[TopN].size = 1

\* the url of sample record i ends in the 19 digits of 1700000000000000000 + i
EndsInStatusId(url, i) ==
  LET d == ToString(i)
  IN /\ Len(url) > 19
     /\ SubSeq(url, Len(url) - 18, Len(url)) = "17" \o Zeros(17 - Len(d)) \o d

\* C8: generate_sample_data(n) returns exactly n records; record i is
\* built from catalog template i mod 8, with handle "@" + the template's,
\* text + " #" + (1000 + i), a url ending in 1700000000000000000 + i and
\* the template's location; the urls are pairwise distinct.
C8_SampleRecords ==
  (AtReturn /\ how = "off")
    => /\ Len(names) = 8
       /\ Len(df) = max_tweets
       /\ \A i \in 0..(max_tweets - 1) :
            LET tpl == names[(i % 8) + 1]
                rec == df[i + 1]
            IN /\ rec.display_name = tpl[1]
               /\ rec.handle = "@" \o tpl[2]
               /\ rec.text = tpl[3] \o " #" \o ToString(1000 + i)
               /\ rec.url = "https://twitter.com/" \o tpl[2] \o "/status/"
                              \o SubSeq(rec.url, Len(rec.url) - 18, Len(rec.url))
               /\ EndsInStatusId(rec.url, i)
               /\ rec.location = tpl[4]
       /\ \A a, b \in 1..Len(df) : a # b => df[a].url # df[b].url

\* C8's case: more records than the catalog has templates
C8_Witness ==
  /\ AtReturn /\ how = "off" /\ max_tweets > Len(names)
  /\ df[Len(names) + 1].display_name = df[1].display_name
  /\ df[Len(names) + 1].url # df[1].url

\* C9: in every table scrape_tweets or generate_sample_data returns, the
\* handle of every record is empty or begins with exactly one "@".
C9_HandleOneAt ==
  AtReturn
    => \A k \in 1..Len(df) :
         \/ df[k].handle = ""
         \/ /\ Char(df[k].handle, 1) = "@"
            /\ Char(df[k].handle, 2) # "@"

\* C10: during a call with limit >= 1 the number of items requested from
\* the source never exceeds the limit, so a failure of the source after
\* limit rows were collected does not change the result.
C10_PullsAtMostLimit ==
  (live /\ max_tweets >= 1 /\ pc \in {"iter", "filter", "returned", "crashed"})
    => /\ pulled <= max_tweets
       /\ Len(rows) = max_tweets => how \in {"", "rows"}

====
